---- MODULE Spec2Model ----
(***************************************************************************)
(* Model of the recursive-descent JSON parser of src/JSONParser/main.cpp.  *)
(*                                                                         *)
(* A string_view is modelled as a pair (json, past): json is the sequence  *)
(* of bytes of the view, past is the memory that follows the view in its   *)
(* buffer.  Every sub-view the parser makes is a suffix (json.substr(i)),  *)
(* so all views of one parse share the same past.  Indices are the code's  *)
(* 0-based indices.  A byte is a one-character string, or a name for a     *)
(* control character ("NUL", "VT", "BS", "BEL").                           *)
(***************************************************************************)
EXTENDS Integers, Sequences, FiniteSets, TLC

\* ------------------------------------------------------------------------
\* Bytes
\* ------------------------------------------------------------------------
Digits == {"0", "1", "2", "3", "4", "5", "6", "7", "8", "9"}

DigitVal(c) ==
  CASE c = "0" -> 0 [] c = "1" -> 1 [] c = "2" -> 2 [] c = "3" -> 3
    [] c = "4" -> 4 [] c = "5" -> 5 [] c = "6" -> 6 [] c = "7" -> 7
    [] c = "8" -> 8 [] c = "9" -> 9

\* The set find_first_not_of receives: the literal is " \n\r\t\v\f\0", but
\* the const char* overload measures it with strlen, so the set ends before
\* the NUL.
LeadingSkipSet == {" ", "\n", "\r", "\t", "VT", "\f"}

\* std::isspace in the "C" locale.
isspace(c) == c \in {" ", "\t", "\n", "VT", "\f", "\r"}

npos == -1

\* json[i] as the build evaluates it: inside the view, the view's byte;
\* past the end of the view (undefined behaviour), whatever follows the view
\* in memory; zero bytes follow the modelled tail.
Byte(json, past, i) ==
  IF i < Len(json) THEN json[i + 1]
  ELSE IF i - Len(json) < Len(past) THEN past[i - Len(json) + 1]
  ELSE "NUL"

substr(json, off) == SubSeq(json, off + 1, Len(json))

\* First index whose byte is not in set, npos when there is none.
find_first_not_of(json, set) ==
  IF \E k \in 0..(Len(json) - 1) : json[k + 1] \notin set
  THEN CHOOSE k \in 0..(Len(json) - 1) :
         /\ json[k + 1] \notin set
         /\ \A m \in 0..(k - 1) : json[m + 1] \in set
  ELSE npos

\* ------------------------------------------------------------------------
\* Value model
\* ------------------------------------------------------------------------
\* JSONObject: the alternative held by inner, and its payload.
JNull == [type |-> "Null"]
JInt(n) == [type |-> "Int", v |-> n]
JDouble(d) == [type |-> "Double", v |-> d]
JString(s) == [type |-> "String", v |-> s]
JList(l) == [type |-> "List", v |-> l]
JDict(m) == [type |-> "Dict", v |-> m]

EmptyDict == [k \in {} |-> JNull]

\* try_emplace written as insert_or_assign (faulty variant): the last
\* occurrence wins.
try_emplace_assign(m, key, val) ==
  [k \in (DOMAIN m) \cup {key} |-> IF k = key THEN val ELSE m[k]]

\* unordered_map::try_emplace: inserts only when the key is absent.
try_emplace(m, key, val) ==
  IF key \in DOMAIN m THEN m
  ELSE [k \in (DOMAIN m) \cup {key} |-> IF k = key THEN val ELSE m[k]]

\* The pair parse returns, or the std::out_of_range that leaves it.
Ret(obj, eaten) == [obj |-> obj, eaten |-> eaten, threw |-> FALSE]
Threw == [obj |-> JNull, eaten |-> 0, threw |-> TRUE]

\* ------------------------------------------------------------------------
\* Escape decoder
\* ------------------------------------------------------------------------
unescaped_char(c) ==
  CASE c = "n" -> "\n"
    [] c = "r" -> "\r"
    [] c = "0" -> "NUL"
    [] c = "t" -> "\t"
    [] c = "v" -> "VT"
    [] c = "f" -> "\f"
    [] c = "b" -> "BS"
    [] c = "a" -> "BEL"
    [] OTHER -> c

\* ------------------------------------------------------------------------
\* Number matcher
\* ------------------------------------------------------------------------
\* Index after the longest run of digits of s that starts at index k.
RECURSIVE DigitRunEnd(_, _)
DigitRunEnd(s, k) ==
  IF k < Len(s) /\ s[k + 1] \in Digits THEN DigitRunEnd(s, k + 1) ELSE k

\* The byte at index j of s, "END" past its end.
CharAt(s, j) == IF j < Len(s) THEN s[j + 1] ELSE "END"

\* (0|[1-9][0-9]*) at index d0: the index after it, npos when it fails.  The
\* alternation is ordered, so a leading 0 is matched alone.
IntEnd(s, d0) ==
  IF CharAt(s, d0) = "0" THEN d0 + 1
  ELSE IF CharAt(s, d0) \in Digits THEN DigitRunEnd(s, d0)
  ELSE npos

\* (\.[0-9]+)? at index intEnd: the index after it.
FracEnd(s, intEnd) ==
  IF CharAt(s, intEnd) = "." /\ CharAt(s, intEnd + 1) \in Digits
  THEN DigitRunEnd(s, intEnd + 1) ELSE intEnd

\* Index of the first digit of an exponent whose e is at index fracEnd.
ExpDigits(s, fracEnd) ==
  IF CharAt(s, fracEnd + 1) \in {"+", "-"} THEN fracEnd + 2 ELSE fracEnd + 1

\* ([eE][+-]?[0-9]+)? at index fracEnd: the index after it.
ExpEnd(s, fracEnd) ==
  IF CharAt(s, fracEnd) \in {"e", "E"} /\ CharAt(s, ExpDigits(s, fracEnd)) \in Digits
  THEN DigitRunEnd(s, ExpDigits(s, fracEnd)) ELSE fracEnd

MatchFrom(s, intEnd) ==
  IF intEnd = npos THEN npos ELSE ExpEnd(s, FracEnd(s, intEnd))

\* End index of the match of
\*   -?(0|[1-9][0-9]*)(\.[0-9]+)?([eE][+-]?[0-9]+)?
\* that starts at index k of s, or npos when the regex does not match there.
\* Quantifiers are greedy (ECMAScript); every optional part that can match
\* does.
MatchAt(s, k) ==
  MatchFrom(s, IntEnd(s, IF CharAt(s, k) = "-" THEN k + 1 ELSE k))

\* std::regex_search over [data, data + size): the leftmost position at
\* which the regex matches, and the matched text (match.str()).
regex_search(json) ==
  IF \E k \in 0..(Len(json) - 1) : MatchAt(json, k) # npos
  THEN LET k == CHOOSE k \in 0..(Len(json) - 1) :
                  /\ MatchAt(json, k) # npos
                  /\ \A m \in 0..(k - 1) : MatchAt(json, m) = npos
       IN [found |-> TRUE, pos |-> k, str |-> SubSeq(json, k + 1, MatchAt(json, k))]
  ELSE [found |-> FALSE, pos |-> npos, str |-> <<>>]

INT_MAX == 2147483647
INT_MIN == -INT_MAX - 1

\* Accumulates the digits s[k+1..e] as a negative number bounded below by
\* lim; "range" when the number leaves the bound.
RECURSIVE AccumNeg(_, _, _, _, _)
AccumNeg(s, k, e, acc, lim) ==
  IF k >= e THEN [ok |-> TRUE, v |-> acc]
  ELSE LET d == DigitVal(s[k + 1]) IN
       IF acc < (lim + d + 9) \div 10 THEN [ok |-> FALSE, v |-> 0]
       ELSE AccumNeg(s, k + 1, e, acc * 10 - d, lim)

\* std::from_chars(first, last, int&): optional minus sign, then the longest
\* run of digits.  ok is ec == std::errc(), ptr the index of the first byte
\* not consumed.
from_chars_int(str) ==
  LET neg == Len(str) > 0 /\ str[1] = "-"
      d0 == IF neg THEN 1 ELSE 0
      e == DigitRunEnd(str, d0)
      acc == AccumNeg(str, d0, e, 0, IF neg THEN INT_MIN ELSE -INT_MAX)
  IN IF e = d0 THEN [ok |-> FALSE, v |-> 0, ptr |-> 0]
     ELSE IF ~acc.ok THEN [ok |-> FALSE, v |-> 0, ptr |-> e]
     ELSE [ok |-> TRUE, v |-> IF neg THEN acc.v ELSE -acc.v, ptr |-> e]

\* try_parse_num<int>
try_parse_int(str) ==
  LET res == from_chars_int(str) IN
  IF res.ok /\ res.ptr = Len(str) THEN [has_value |-> TRUE, value |-> res.v]
  ELSE [has_value |-> FALSE, value |-> 0]

\* Exponent magnitudes saturate here, far outside the range of a double.
ExpCap == 100000

RECURSIVE AccumExp(_, _, _, _)
AccumExp(s, k, e, acc) ==
  IF k >= e THEN acc
  ELSE LET n == acc * 10 + DigitVal(s[k + 1]) IN
       AccumExp(s, k + 1, e, IF n > ExpCap THEN ExpCap ELSE n)

RECURSIVE StripLeadingZeros(_)
StripLeadingZeros(ds) ==
  IF ds # <<>> /\ ds[1] = "0" THEN StripLeadingZeros(Tail(ds)) ELSE ds

RECURSIVE StripTrailingZeros(_)
StripTrailingZeros(ds) ==
  IF ds # <<>> /\ ds[Len(ds)] = "0"
  THEN StripTrailingZeros(SubSeq(ds, 1, Len(ds) - 1)) ELSE ds

\* a < b for digit sequences read as the decimal fractions 0.a and 0.b.
RECURSIVE FracLess(_, _)
FracLess(a, b) ==
  IF b = <<>> THEN FALSE
  ELSE IF a = <<>> THEN StripTrailingZeros(b) # <<>>
  ELSE IF a[1] # b[1] THEN DigitVal(a[1]) < DigitVal(b[1])
  ELSE FracLess(Tail(a), Tail(b))

\* 0.mant * 10^order at which a decimal rounds to infinity (DBL_MAX plus half
\* an ulp) and the one at or below which it rounds to zero (half the least
\* denormal).
DBL_OVERFLOW_MANT ==
  <<"1", "7", "9", "7", "6", "9", "3", "1", "3", "4", "8", "6", "2", "3", "1", "5",
    "8", "0", "7", "9", "3", "7">>
DBL_OVERFLOW_ORDER == 309
DBL_UNDERFLOW_MANT ==
  <<"2", "4", "7", "0", "3", "2", "8", "2", "2", "9", "2", "0", "6", "2", "3", "2",
    "7", "2", "0", "8", "0", "5">>
DBL_UNDERFLOW_ORDER == -323

\* The double read from a decimal: sign, significant digits mant and order,
\* (-1)^neg * 0.mant * 10^order.  ok is false when it overflows or underflows
\* a double.
DecimalToDouble(neg, mant, order) ==
  IF mant = <<>> THEN [ok |-> TRUE, v |-> [neg |-> neg, mant |-> <<>>, order |-> 0]]
  ELSE IF \/ order > DBL_OVERFLOW_ORDER
          \/ order = DBL_OVERFLOW_ORDER /\ ~FracLess(mant, DBL_OVERFLOW_MANT)
          \/ order < DBL_UNDERFLOW_ORDER
          \/ order = DBL_UNDERFLOW_ORDER /\ ~FracLess(DBL_UNDERFLOW_MANT, mant)
  THEN [ok |-> FALSE, v |-> [neg |-> neg, mant |-> <<>>, order |-> 0]]
  ELSE [ok |-> TRUE, v |-> [neg |-> neg, mant |-> mant, order |-> order]]

\* The digits of the integer and fraction parts, and the exponent.
Normalise(neg, intLen, all, lead, exp) ==
  DecimalToDouble(neg, StripTrailingZeros(lead), intLen - (Len(all) - Len(lead)) + exp)

DoubleOfParts(neg, intDigits, fracDigits, exp) ==
  Normalise(neg, Len(intDigits), intDigits \o fracDigits,
            StripLeadingZeros(intDigits \o fracDigits), exp)

\* The exponent of a lexeme whose fraction ends at index fracEnd.
ExponentOf(str, fracEnd) ==
  IF CharAt(str, fracEnd) \notin {"e", "E"} THEN 0
  ELSE IF CharAt(str, fracEnd + 1) = "-"
  THEN -AccumExp(str, fracEnd + 2, Len(str), 0)
  ELSE AccumExp(str, ExpDigits(str, fracEnd), Len(str), 0)

DoubleFrom(str, neg, d0, intEnd, fracEnd) ==
  DoubleOfParts(neg, SubSeq(str, d0 + 1, intEnd), SubSeq(str, intEnd + 2, fracEnd),
                ExponentOf(str, fracEnd))

\* std::from_chars(first, last, double&) on a lexeme of the number regex,
\* which it always consumes whole (ptr == last).  The double is kept as the
\* decimal it was read from; binary rounding is not modelled.  ok is
\* ec == std::errc().
from_chars_double(str) ==
  DoubleFrom(str, CharAt(str, 0) = "-", IF CharAt(str, 0) = "-" THEN 1 ELSE 0,
             DigitRunEnd(str, IF CharAt(str, 0) = "-" THEN 1 ELSE 0),
             FracEnd(str, DigitRunEnd(str, IF CharAt(str, 0) = "-" THEN 1 ELSE 0)))

\* try_parse_num<double>
try_parse_double(str) ==
  [has_value |-> from_chars_double(str).ok, value |-> from_chars_double(str).v]

\* NumberBranch with the conversions in the wrong order (faulty variant): the
\* double conversion is tried before the int one.
NumberBranch_DoubleFirst(json) ==
  LET ch == json[1]
      match == regex_search(json)
      asInt == try_parse_int(match.str)
      asDouble == try_parse_double(match.str)
  IN IF ~(ch \in Digits \/ ch = "+" \/ ch = "-") THEN [returned |-> FALSE, ret |-> Ret(JNull, 0)]
     ELSE IF ~match.found THEN [returned |-> FALSE, ret |-> Ret(JNull, 0)]
     ELSE IF asDouble.has_value
     THEN [returned |-> TRUE, ret |-> Ret(JDouble(asDouble.value), Len(match.str))]
     ELSE IF asInt.has_value
     THEN [returned |-> TRUE, ret |-> Ret(JInt(asInt.value), Len(match.str))]
     ELSE [returned |-> FALSE, ret |-> Ret(JNull, 0)]

\* The number branch of parse.  returned is false when the branch falls
\* through to the branches after it.
NumberBranch(json) ==
  LET ch == json[1]
      match == regex_search(json)
      asInt == try_parse_int(match.str)
      asDouble == try_parse_double(match.str)
  IN IF ~(ch \in Digits \/ ch = "+" \/ ch = "-") THEN [returned |-> FALSE, ret |-> Ret(JNull, 0)]
     ELSE IF ~match.found THEN [returned |-> FALSE, ret |-> Ret(JNull, 0)]
     ELSE IF asInt.has_value
     THEN [returned |-> TRUE, ret |-> Ret(JInt(asInt.value), Len(match.str))]
     ELSE IF asDouble.has_value
     THEN [returned |-> TRUE, ret |-> Ret(JDouble(asDouble.value), Len(match.str))]
     ELSE [returned |-> FALSE, ret |-> Ret(JNull, 0)]

\* ------------------------------------------------------------------------
\* String scanner
\* ------------------------------------------------------------------------
\* One iteration of the for loop of the string branch, from the loop state
\* (i, phase, str) with i < json.size(); done when the iteration breaks.
StringIter(json, i, phase, str) ==
  LET ch == json[i + 1] IN
  IF phase = "Raw" /\ ch = "\\"
  THEN [done |-> FALSE, i |-> i + 1, phase |-> "Esc", str |-> str]
  ELSE IF phase = "Raw" /\ ch = "\""
  THEN [done |-> TRUE, i |-> i + 1, phase |-> "Raw", str |-> str]
  ELSE IF phase = "Raw"
  THEN [done |-> FALSE, i |-> i + 1, phase |-> "Raw", str |-> Append(str, ch)]
  ELSE [done |-> FALSE, i |-> i + 1, phase |-> "Raw",
        str |-> Append(str, unescaped_char(ch))]

RECURSIVE StringLoop(_, _, _, _)
StringLoop(json, i, phase, str) ==
  IF ~(i < Len(json)) THEN Ret(JString(str), i)
  ELSE LET n == StringIter(json, i, phase, str) IN
       IF n.done THEN Ret(JString(n.str), n.i)
       ELSE StringLoop(json, n.i, n.phase, n.str)

\* ------------------------------------------------------------------------
\* Containers and the entry point
\* ------------------------------------------------------------------------
RECURSIVE skip_whitespace(_, _)
skip_whitespace(json, i) ==
  IF i < Len(json) /\ isspace(json[i + 1]) THEN skip_whitespace(json, i + 1) ELSE i

\* skip_whitespace(i); if (json[i] == sep) i += 1; skip_whitespace(i);
SkipSeparator(json, past, i, sep) ==
  LET i1 == skip_whitespace(json, i)
      i2 == IF Byte(json, past, i1) = sep THEN i1 + 1 ELSE i1
  IN skip_whitespace(json, i2)

RECURSIVE parse(_, _)
RECURSIVE ListLoop(_, _, _, _)
RECURSIVE DictLoop(_, _, _, _)

\* The for loop of the list branch from the loop state (i, res), and the
\* return after it.
ListLoop(json, past, i, res) ==
  IF ~(i < Len(json)) THEN Ret(JList(res), i)
  ELSE IF json[i + 1] = "]" THEN Ret(JList(res), i + 1)
  ELSE LET r == parse(substr(json, i), past) IN
       IF r.threw THEN Threw
       ELSE IF r.eaten = 0 THEN Ret(JList(res), 0)
       ELSE ListLoop(json, past, SkipSeparator(json, past, i + r.eaten, ","),
                     Append(res, r.obj))

\* The for loop of the dict branch from the loop state (i, res), and the
\* return after it.  json.substr(i) throws std::out_of_range when
\* i > json.size().
DictLoop(json, past, i, res) ==
  IF ~(i < Len(json)) THEN Ret(JDict(res), i)
  ELSE IF json[i + 1] = "}" THEN Ret(JDict(res), i + 1)
  ELSE LET k == parse(substr(json, i), past) IN
       IF k.threw THEN Threw
       ELSE IF k.eaten = 0 THEN Ret(JDict(res), 0)
       ELSE IF k.obj.type # "String" THEN Ret(JDict(res), 0)
       ELSE LET iv == SkipSeparator(json, past, i + k.eaten, ":") IN
            IF iv > Len(json) THEN Threw
            ELSE LET v == parse(substr(json, iv), past) IN
                 IF v.threw THEN Threw
                 ELSE IF v.eaten = 0 THEN Ret(JDict(res), 0)
                 ELSE DictLoop(json, past,
                               SkipSeparator(json, past, iv + v.eaten, ","),
                               try_emplace(res, k.obj.v, v.obj))

parse(json, past) ==
  IF json = <<>> THEN Ret(JNull, 0)
  ELSE LET off == find_first_not_of(json, LeadingSkipSet) IN
       IF off # 0 /\ off # npos
       THEN LET r == parse(substr(json, off), past) IN
            IF r.threw THEN Threw ELSE Ret(r.obj, r.eaten + off)
       ELSE LET num == NumberBranch(json) IN
            IF num.returned THEN num.ret
            ELSE IF json[1] = "\"" THEN StringLoop(json, 1, "Raw", <<>>)
            ELSE IF json[1] = "[" THEN ListLoop(json, past, 1, <<>>)
            ELSE IF json[1] = "{" THEN DictLoop(json, past, 1, EmptyDict)
            ELSE Ret(JNull, 0)

\* ------------------------------------------------------------------------
\* The parser as a machine: one frame per active call of parse
\* ------------------------------------------------------------------------
VARIABLES
  json,       \* the view handed to the outermost call of parse
  past,       \* the memory that follows it
  stack,      \* the active calls of parse, innermost last
  ret,        \* the pair the call that returned last has returned
  returning,  \* ret is waiting to be taken by the caller
  status      \* "idle", "run", "done" (the outermost call returned), "threw"

vars == <<json, past, stack, ret, returning, status>>

\* A call of parse on json.substr(base): its position (pc) and its locals.
Frame(base) ==
  [pc |-> "entry", base |-> base, off |-> 0, i |-> 0, phase |-> "Raw",
   str |-> <<>>, res |-> <<>>, dres |-> EmptyDict, key |-> <<>>]

top == stack[Len(stack)]
view == substr(json, top.base)

Running == status = "run" /\ stack # <<>>
At(pc) == Running /\ top.pc = pc /\ ~returning
Back(pc) == Running /\ top.pc = pc /\ returning

SetTop(f) == [stack EXCEPT ![Len(stack)] = f]

\* return r;
Return(r) ==
  /\ stack' = SubSeq(stack, 1, Len(stack) - 1)
  /\ ret' = r
  /\ returning' = TRUE
  /\ status' = IF Len(stack) = 1 THEN "done" ELSE "run"
  /\ UNCHANGED <<json, past>>

\* parse(json.substr(at)) from the current call, which waits at pc.
Call(f, pc, at) ==
  /\ stack' = Append(SetTop([f EXCEPT !.pc = pc]), Frame(top.base + at))
  /\ ret' = Ret(JNull, 0)
  /\ returning' = FALSE
  /\ UNCHANGED <<json, past, status>>

\* Continue in the current call at pc.
Goto(f, pc) ==
  /\ stack' = SetTop([f EXCEPT !.pc = pc])
  /\ ret' = Ret(JNull, 0)
  /\ returning' = FALSE
  /\ UNCHANGED <<json, past, status>>

\* std::out_of_range leaves every active call; nothing catches it.
Throw ==
  /\ stack' = <<>>
  /\ ret' = Ret(JNull, 0)
  /\ returning' = FALSE
  /\ status' = "threw"
  /\ UNCHANGED <<json, past>>

SkipsLeading(v) ==
  LET off == find_first_not_of(v, LeadingSkipSet) IN off # 0 /\ off # npos

\* The branch the entry of parse takes on a non-empty view.
Dispatch(v) ==
  IF SkipsLeading(v) THEN "skip"
  ELSE IF NumberBranch(v).returned THEN "number"
  ELSE IF v[1] = "\"" THEN "string"
  ELSE IF v[1] = "[" THEN "list"
  ELSE IF v[1] = "{" THEN "dict"
  ELSE "none"

EnterEmpty ==
  /\ At("entry") /\ view = <<>>
  /\ Return(Ret(JNull, 0))

SkipLeading ==
  /\ At("entry") /\ view # <<>> /\ Dispatch(view) = "skip"
  /\ LET off == find_first_not_of(view, LeadingSkipSet) IN
     Call([top EXCEPT !.off = off], "ws_ret", off)

WsReturn ==
  /\ Back("ws_ret")
  /\ Return(Ret(ret.obj, ret.eaten + top.off))

ParseNumber ==
  /\ At("entry") /\ view # <<>> /\ Dispatch(view) = "number"
  /\ Return(NumberBranch(view).ret)

EnterString ==
  /\ At("entry") /\ view # <<>> /\ Dispatch(view) = "string"
  /\ Goto([top EXCEPT !.i = 1, !.phase = "Raw", !.str = <<>>], "string")

StringStep ==
  /\ At("string")
  /\ IF ~(top.i < Len(view)) THEN Return(Ret(JString(top.str), top.i))
     ELSE LET n == StringIter(view, top.i, top.phase, top.str) IN
          IF n.done THEN Return(Ret(JString(n.str), n.i))
          ELSE Goto([top EXCEPT !.i = n.i, !.phase = n.phase, !.str = n.str], "string")

EnterList ==
  /\ At("entry") /\ view # <<>> /\ Dispatch(view) = "list"
  /\ Goto([top EXCEPT !.i = 1, !.res = <<>>], "list")

ListStep ==
  /\ At("list")
  /\ IF ~(top.i < Len(view)) THEN Return(Ret(JList(top.res), top.i))
     ELSE IF view[top.i + 1] = "]" THEN Return(Ret(JList(top.res), top.i + 1))
     ELSE Call(top, "list_elem", top.i)

\* ListElemReturn without the eaten == 0 test (faulty variant).
ListElemReturn_Unchecked ==
  /\ Back("list_elem")
  /\ Goto([top EXCEPT !.res = Append(top.res, ret.obj),
                       !.i = SkipSeparator(view, past, top.i + ret.eaten, ",")],
          "list")

ListElemReturn ==
  /\ Back("list_elem")
  /\ IF ret.eaten = 0 THEN Return(Ret(JList(top.res), 0))
     ELSE Goto([top EXCEPT !.res = Append(top.res, ret.obj),
                           !.i = SkipSeparator(view, past, top.i + ret.eaten, ",")],
               "list")

EnterDict ==
  /\ At("entry") /\ view # <<>> /\ Dispatch(view) = "dict"
  /\ Goto([top EXCEPT !.i = 1, !.dres = EmptyDict], "dict")

DictStep ==
  /\ At("dict")
  /\ IF ~(top.i < Len(view)) THEN Return(Ret(JDict(top.dres), top.i))
     ELSE IF view[top.i + 1] = "}" THEN Return(Ret(JDict(top.dres), top.i + 1))
     ELSE Call(top, "dict_key", top.i)

DictKeyReturn ==
  /\ Back("dict_key")
  /\ IF ret.eaten = 0 \/ ret.obj.type # "String" THEN Return(Ret(JDict(top.dres), 0))
     ELSE LET iv == SkipSeparator(view, past, top.i + ret.eaten, ":") IN
          IF iv > Len(view) THEN Throw
          ELSE Call([top EXCEPT !.i = iv, !.key = ret.obj.v], "dict_val", iv)

DictValReturn ==
  /\ Back("dict_val")
  /\ IF ret.eaten = 0 THEN Return(Ret(JDict(top.dres), 0))
     ELSE Goto([top EXCEPT !.dres = try_emplace(top.dres, top.key, ret.obj),
                           !.key = <<>>,
                           !.i = SkipSeparator(view, past, top.i + ret.eaten, ",")],
               "dict")

NoMatch ==
  /\ At("entry") /\ view # <<>> /\ Dispatch(view) = "none"
  /\ Return(Ret(JNull, 0))

Step ==
  \/ EnterEmpty
  \/ SkipLeading
  \/ WsReturn
  \/ ParseNumber
  \/ EnterString
  \/ StringStep
  \/ EnterList
  \/ ListStep
  \/ ListElemReturn
  \/ EnterDict
  \/ DictStep
  \/ DictKeyReturn
  \/ DictValReturn
  \/ NoMatch

\* ------------------------------------------------------------------------
\* Inputs
\* ------------------------------------------------------------------------
MaxLen == 3
MaxNumLen == 4
MaxTail == 2
MaxPairs == 2
PastLen == 1

SeqsUpTo(S, n) == UNION {[1..k -> S] : k \in 0..n}

Q == "\""

\* Every view of at most MaxLen bytes over the bytes the parser tells apart.
Alphabet == {" ", "NUL", "1", "-", Q, "\\", "[", "]", "{", "}", ":", ",", "a"}
ShortInputs == SeqsUpTo(Alphabet, MaxLen)

\* Views made of the bytes of the number grammar.
NumAlphabet == {"0", "9", "-", "+", ".", "e"}
NumberInputs == SeqsUpTo(NumAlphabet, MaxNumLen)

\* Integer lexemes around INT_MAX and INT_MIN: the first digits of INT_MAX
\* followed by any tail of 1..MaxTail digits, with and without a minus sign.
IntMaxHead == <<"2", "1", "4", "7", "4", "8", "3", "6">>
BoundaryInts ==
  {sign \o IntMaxHead \o t :
     sign \in {<<>>, <<"-">>},
     t \in UNION {[1..k -> Digits] : k \in 1..MaxTail}}

\* Decimals at the two ends of the range of a double: one digit and an
\* exponent around 308 and -324.
EdgeExponents ==
  {<<"3", "0", "8">>, <<"3", "0", "9">>, <<"3", "2", "3">>, <<"3", "2", "4">>,
   <<"9", "9", "9">>}
DoubleEdges ==
  {<<d, "e">> \o sg \o e :
     d \in {"0", "1", "2", "3", "9"}, sg \in {<<>>, <<"-">>}, e \in EdgeExponents}

\* Object literals: up to MaxPairs key/value pairs, written tight
\* ({"a":1,"b":2}) or spaced ({"a" : 1 , "b" : 2}).
Keys == {<<"a">>, <<"b">>}
ValueLexemes == {<<"1">>, <<"9">>, <<Q, "a", Q>>, <<"[", "1", "]">>}
Pairs == [k : Keys, v : ValueLexemes]
PairSeqs == UNION {[1..n -> Pairs] : n \in 0..MaxPairs}

RECURSIVE RenderPairs(_, _)
RenderPairs(ps, spaced) ==
  IF ps = <<>> THEN <<>>
  ELSE LET colon == IF spaced THEN <<" ", ":", " ">> ELSE <<":">>
           comma == IF spaced THEN <<" ", ",", " ">> ELSE <<",">>
           one == <<Q>> \o ps[1].k \o <<Q>> \o colon \o ps[1].v
       IN IF Len(ps) = 1 THEN one
          ELSE one \o comma \o RenderPairs(Tail(ps), spaced)

Render(ps, spaced) == <<"{">> \o RenderPairs(ps, spaced) \o <<"}">>

ObjectLiterals == {Render(ps, sp) : ps \in PairSeqs, sp \in BOOLEAN}

\* What may follow the view in memory, as far as parse can tell.
PastBytes == {",", ":", "NUL"}

Inputs ==
  ShortInputs \cup NumberInputs \cup BoundaryInts \cup DoubleEdges \cup ObjectLiterals

\* No call of parse has been made yet.
Init ==
  /\ json = <<>>
  /\ past = <<>>
  /\ stack = <<>>
  /\ ret = Ret(JNull, 0)
  /\ returning = FALSE
  /\ status = "idle"

\* The outermost call: parse(json) on a view that past follows in memory.
Start ==
  /\ status = "idle"
  /\ json' \in Inputs
  /\ past' \in [1..PastLen -> PastBytes]
  /\ stack' = <<Frame(0)>>
  /\ ret' = Ret(JNull, 0)
  /\ returning' = FALSE
  /\ status' = "run"

Next == Start \/ Step

Spec == Init /\ [][Next]_vars

\* The machine and the recursive definition of parse agree.
AgreeInv ==
  /\ status = "done" =>
       LET r == parse(json, past) IN
       ~r.threw /\ r.eaten = ret.eaten /\ r.obj.type = ret.obj.type /\ r.obj = ret.obj
  /\ status = "threw" => parse(json, past).threw

\* ------------------------------------------------------------------------
\* Properties
\* ------------------------------------------------------------------------
Done == status = "done"

Range(f) == {f[k] : k \in DOMAIN f}

\* C1: whenever a call of parse returns consumed == 0, the value it returns
\* is Null; a container whose element, key or value fails returns (Null, 0),
\* not the partially built List/Map.
C1_FailureReturnsNull ==
  returning => (ret.eaten = 0 => ret.obj.type = "Null")

\* C2: the failure sentinel propagates through the leading-whitespace skip:
\* when the call made on the remainder returns consumed == 0, the call that
\* skipped the whitespace returns consumed == 0 as well.
C2_SkipPropagatesFailure ==
  [][(Back("ws_ret") /\ ret.eaten = 0) => ret'.eaten = 0]_vars

Closer(open) == IF open = "[" THEN "]" ELSE "}"

\* C3: for an input that starts with [ or {, a non-zero consumed count c
\* means the byte at index c-1 is the closing bracket, and an input in which
\* the bracket is never closed yields consumed == 0.
C3_SuccessOnlyWhenClosed ==
  (Done /\ json # <<>> /\ json[1] \in {"[", "{"}) =>
    /\ ret.eaten > 0 =>
         (ret.eaten <= Len(json) /\ json[ret.eaten] = Closer(json[1]))
    /\ Closer(json[1]) \notin Range(json) => ret.eaten = 0

\* The number grammar of the Number Matcher, stated on whole lexemes.
IsDigits(s) == s # <<>> /\ \A k \in 1..Len(s) : s[k] \in Digits
IsIntPart(s) == s = <<"0">> \/ (IsDigits(s) /\ s[1] # "0")
IsFracPart(s) == s = <<>> \/ (Len(s) >= 2 /\ s[1] = "." /\ IsDigits(Tail(s)))
IsExpPart(s) ==
  \/ s = <<>>
  \/ /\ Len(s) >= 2 /\ s[1] \in {"e", "E"}
     /\ \/ IsDigits(Tail(s))
        \/ Len(s) >= 3 /\ s[2] \in {"+", "-"} /\ IsDigits(Tail(Tail(s)))
IsNumberLexeme(s) ==
  \E a \in 0..Len(s), b \in 0..Len(s) :
    /\ a <= b
    /\ LET sg == IF s # <<>> /\ s[1] = "-" THEN 1 ELSE 0 IN
       /\ sg < a
       /\ IsIntPart(SubSeq(s, sg + 1, a))
       /\ IsFracPart(SubSeq(s, a + 1, b))
       /\ IsExpPart(SubSeq(s, b + 1, Len(s)))

\* Lengths of the prefixes of s that are number lexemes.
LexemePrefixes(s) == {n \in 1..Len(s) : IsNumberLexeme(SubSeq(s, 1, n))}
LongestOf(S) == CHOOSE n \in S : \A m \in S : m <= n

\* The value the conversions give a whole lexeme.
LexemeValue(lex) ==
  IF try_parse_int(lex).has_value THEN JInt(try_parse_int(lex).value)
  ELSE JDouble(try_parse_double(lex).value)

\* C4: the number branch is anchored: on an input that starts with a digit,
\* + or -, a non-zero consumed count is the length of the longest prefix that
\* matches the number grammar and the value is that prefix's value; when no
\* prefix matches the grammar, consumed is 0.
C4_NumberAnchored ==
  (Done /\ json # <<>> /\ json[1] \in Digits \cup {"+", "-"}) =>
    IF LexemePrefixes(json) = {} THEN ret.eaten = 0
    ELSE ret.eaten > 0 =>
           /\ ret.eaten = LongestOf(LexemePrefixes(json))
           /\ ret.obj.type = LexemeValue(SubSeq(json, 1, ret.eaten)).type
           /\ ret.obj = LexemeValue(SubSeq(json, 1, ret.eaten))

IsIntegerLexeme(s) ==
  /\ s # <<>>
  /\ IsIntPart(IF s[1] = "-" THEN Tail(s) ELSE s)

\* a <= b for digit sequences without leading zeros, read as naturals.
RECURSIVE DigitsLeq(_, _)
DigitsLeq(a, b) ==
  IF Len(a) # Len(b) THEN Len(a) < Len(b)
  ELSE IF a = <<>> THEN TRUE
  ELSE IF a[1] # b[1] THEN DigitVal(a[1]) < DigitVal(b[1])
  ELSE DigitsLeq(Tail(a), Tail(b))

Magnitude(lex) == IF lex[1] = "-" THEN Tail(lex) ELSE lex

Int32MaxDigits == <<"2", "1", "4", "7", "4", "8", "3", "6", "4", "7">>
Int32MinDigits == <<"2", "1", "4", "7", "4", "8", "3", "6", "4", "8">>
Int64MaxDigits ==
  <<"9", "2", "2", "3", "3", "7", "2", "0", "3", "6", "8", "5", "4", "7", "7", "5",
    "8", "0", "7">>
Int64MinDigits ==
  <<"9", "2", "2", "3", "3", "7", "2", "0", "3", "6", "8", "5", "4", "7", "7", "5",
    "8", "0", "8">>

FitsInt32(lex) ==
  DigitsLeq(Magnitude(lex), IF lex[1] = "-" THEN Int32MinDigits ELSE Int32MaxDigits)
FitsInt64(lex) ==
  DigitsLeq(Magnitude(lex), IF lex[1] = "-" THEN Int64MinDigits ELSE Int64MaxDigits)

DigitOf(n) == CHOOSE c \in Digits : DigitVal(c) = n

\* The decimal digits of -n, for n <= 0.
RECURSIVE DigitsOfNeg(_)
DigitsOfNeg(n) ==
  LET d == (10 - (n % 10)) % 10
      rest == (n + 9) \div 10
  IN IF rest = 0 THEN <<DigitOf(d)>> ELSE Append(DigitsOfNeg(rest), DigitOf(d))

\* The integer lexeme that denotes n.
DecimalOf(n) == IF n < 0 THEN <<"-">> \o DigitsOfNeg(n) ELSE DigitsOfNeg(-n)

\* -0 denotes 0.
Canonical(lex) == IF lex = <<"-", "0">> THEN <<"0">> ELSE lex

IsExactInt(lex) ==
  /\ ret.obj.type = "Int"
  /\ DecimalOf(ret.obj.v) = Canonical(lex)
  /\ ret.eaten = Len(lex)

C6_ConsumedWithinView ==
  [][returning' => (ret'.eaten >= 0 /\ ret'.eaten <= Len(view))]_vars

Whitespace == {" ", "\t", "\n", "\r", "\f", "VT"}
StructuralBytes == {"[", "]", "{", "}", ":", ","}

Insert(s, p, w) == SubSeq(s, 1, p) \o w \o SubSeq(s, p + 1, Len(s))

QuotesBefore(s, p) == Cardinality({k \in 1..p : s[k] = Q})

\* p separates two adjacent tokens of s: it is outside every string literal
\* and one of its neighbours is a bracket, a separator or a string delimiter.
TokenBoundary(s, p) ==
  /\ p \in 1..(Len(s) - 1)
  /\ "\\" \notin Range(s)
  /\ QuotesBefore(s, p) % 2 = 0
  /\ \/ s[p] \in StructuralBytes \cup {Q}
     \/ s[p + 1] \in StructuralBytes \cup {Q}

\* C7: whitespace between tokens is insignificant: when a document parses
\* successfully, the document with one whitespace byte inserted between two
\* adjacent tokens parses successfully to the same value.
C7_WhitespaceInsignificant ==
  (Done /\ ret.eaten > 0 /\ ret.eaten = Len(json)) =>
    \A p \in 1..(Len(json) - 1), w \in Whitespace :
      TokenBoundary(json, p) =>
        LET r == parse(Insert(json, p, <<w>>), past) IN
        /\ ~r.threw /\ r.eaten > 0
        /\ r.obj.type = ret.obj.type /\ r.obj = ret.obj

\* Reads an object literal of the shape Render writes back into its pairs.
RECURSIVE ReadPairs(_)
ReadPairs(t) ==
  IF Len(t) < 5 \/ t[1] # Q \/ t[3] # Q \/ t[4] # ":" THEN <<>>
  ELSE LET n == IF t[5] \in {Q, "["} THEN 3 ELSE 1
           rest == SubSeq(t, 5 + n + 1, Len(t))
       IN <<[k |-> <<t[2]>>, v |-> SubSeq(t, 5, 4 + n)]>>
            \o ReadPairs(IF rest # <<>> /\ rest[1] = "," THEN Tail(rest) ELSE rest)

Unspaced(s) == SelectSeq(s, LAMBDA c : c # " ")
PairsOf(s) == ReadPairs(Tail(Unspaced(s)))
IsObjectLiteral(s) ==
  /\ s # <<>> /\ s[1] = "{"
  /\ \A k \in 1..Len(PairsOf(s)) : PairsOf(s)[k] \in Pairs
  /\ s \in {Render(PairsOf(s), FALSE), Render(PairsOf(s), TRUE)}

FirstIndex(ps, key) == CHOOSE k \in 1..Len(ps) :
  ps[k].k = key /\ \A m \in 1..(k - 1) : ps[m].k # key

\* C8: duplicate keys are first-wins: the Map of an object literal holds each
\* distinct key once, bound to the value of the key's first occurrence, and
\* consumed counts the whole literal, later occurrences included.
C8_FirstWins ==
  (Done /\ IsObjectLiteral(json)) =>
    LET ps == PairsOf(json) IN
    /\ ret.obj.type = "Dict"
    /\ DOMAIN ret.obj.v = {ps[k].k : k \in 1..Len(ps)}
    /\ \A key \in DOMAIN ret.obj.v :
         LET first == parse(ps[FirstIndex(ps, key)].v, past).obj IN
         /\ ret.obj.v[key].type = first.type
         /\ ret.obj.v[key] = first
    /\ ret.eaten = Len(json)

\* A literal that repeats a key with two different values has been parsed.
C8_Witness ==
  /\ Done /\ IsObjectLiteral(json)
  /\ \E a, b \in 1..Len(PairsOf(json)) :
       /\ a < b /\ PairsOf(json)[a].k = PairsOf(json)[b].k
       /\ PairsOf(json)[a].v # PairsOf(json)[b].v
  /\ ret.obj.type = "Dict"

\* The whitespace of the spec's Parse Entry Point: the six whitespace bytes
\* and NUL.
SpecLeadingWhitespace == Whitespace \cup {"NUL"}

\* C9: NUL is leading whitespace: on a run of SpecLeadingWhitespace bytes
\* followed by a parseable value, parse returns that value and consumed is
\* the run length plus the value's consumed length.
C9_NulIsLeadingWhitespace ==
  Done =>
    LET off == find_first_not_of(json, SpecLeadingWhitespace) IN
    (off # npos /\ off > 0) =>
      LET r == parse(substr(json, off), past) IN
      (~r.threw /\ r.eaten > 0) =>
        /\ ret.eaten = off + r.eaten
        /\ ret.obj.type = r.obj.type /\ ret.obj = r.obj

\* A recursive call is made on a strictly shorter suffix of the caller's view.
CallsOnShorterSuffix ==
  (stack # <<>> /\ Len(stack') > Len(stack)) =>
    /\ stack'[Len(stack')].base > top.base
    /\ stack'[Len(stack')].base <= Len(json)

\* A loop iteration that does not leave the loop advances the index.
LoopPcs == {"string", "list", "dict"}
LoopAdvances ==
  (stack # <<>> /\ Len(stack') = Len(stack) /\ stack'[Len(stack')].pc \in LoopPcs
     /\ top.pc # "entry") =>
    stack'[Len(stack')].i > top.i

\* The progress of the call in frame k of stack stk: it falls whenever the
\* call advances its index, and at one index from running (2) to waiting for
\* its callee (1) to holding the callee's result (0).
FrameRank(stk, rtn, k) ==
  LET f == stk[k]
      phase == IF f.pc \in {"entry", "string", "list", "dict"} THEN 2
               ELSE IF k = Len(stk) /\ rtn THEN 0
               ELSE 1
  IN (2 * Len(json) + 1 - (f.base + f.i)) * 3 + phase

\* After the outermost call is made, the stack's ranks fall in the
\* lexicographic order (outermost call first), and no rank is negative: the
\* order is well-founded, so no behaviour takes infinitely many steps.
VariantDecreases ==
  /\ \A k \in 1..Len(stack') : FrameRank(stack', returning', k) >= 0
  /\ \/ status = "idle"
     \/ stack' = <<>>
     \/ \E k \in 1..Len(stack') :
          /\ k <= Len(stack)
          /\ \A m \in 1..(k - 1) :
               FrameRank(stack', returning', m) = FrameRank(stack, returning, m)
          /\ FrameRank(stack', returning', k) < FrameRank(stack, returning, k)

\* C10: parse terminates on every input: every recursive call is made on a
\* strictly shorter suffix, every loop iteration breaks or advances the
\* index, and every step lowers a well-founded variant, so no call or loop
\* iteration repeats at the same offset.
C10_Terminates ==
  [][CallsOnShorterSuffix /\ LoopAdvances /\ VariantDecreases]_vars

\* A list whose loop ran twice around nested calls has been returned.
C10_Witness ==
  /\ Done /\ ret.obj.type = "List" /\ Len(ret.obj.v) >= 2

====
